---- MODULE Spec2Model ----
(***************************************************************************)
(* Model of flask_script/commands.py: Option, Command and the concrete     *)
(* commands Shell, Server, Clean and ShowUrls.                             *)
(*                                                                         *)
(* Each part of the file is exercised by its own specification:            *)
(*   SpecHandle    Command.handle / Command.run                            *)
(*   SpecServer    Server.get_options, the parse of its flags, Server.handle*)
(*   SpecShell     Shell.get_options, the parse of its flags, Shell.run    *)
(*   SpecOptions   Command.option_list, add_option, get_options,           *)
(*                 create_parser, ShowUrls.get_options                     *)
(*   SpecClean     Clean.run                                               *)
(*   SpecShowUrls  ShowUrls.run                                            *)
(***************************************************************************)
EXTENDS Integers, Sequences, FiniteSets, TLC

VARIABLES
    \* ---- the application object (collaborator of handle) ----
    ctxDepth,      \* depth of the application's request-context stack
    appRunCalls,   \* keyword arguments of each app.run(...) call, in order
    \* ---- Command.handle ----
    hpc,           \* position inside handle: idle / in_with / unwinding / done
    hCmd,          \* class of the command being handled
    hBehaviour,    \* what this command's run does when called
    hEvents,       \* enter / run / exit events of the current invocation
    hPending,      \* outcome of run, travelling out of the with block
    hResult,       \* outcome of handle as the caller sees it
    hResults,      \* outcomes of the completed invocations, in order
    \* ---- Server ----
    srv,           \* the Server instance's attributes
    appConfig,     \* app.config: whether DEBUG is set, and to what
    srvOptions,    \* value returned by the last Server.get_options()
    srvArgv,       \* flags on the command line of the last parse
    srvNs,         \* namespace parsed from srvArgv
    srvpc,         \* position of the dispatch: new / options / parsed / handled
    \* ---- Shell ----
    sh,            \* the Shell instance's attributes
    installed,     \* which optional shells the interpreter can import
    shOptions,     \* value returned by the last Shell.get_options()
    shArgv,        \* flags on the command line of the last parse
    shNs,          \* namespace parsed from shArgv
    shArgs,        \* arguments of the last Shell.run call
    launched,      \* interactive shells launched by the last Shell.run, in order
    shOutcome,     \* none / returned / raised <exception>
    shpc,          \* position of the dispatch
    \* ---- Command.option_list and the commands that share it ----
    option_list,   \* the class attribute Command.option_list
    addedBy,       \* per instance: the options added through that instance
    lastCall,      \* the last get_options / create_parser call and its value
    suSelf,        \* the ShowUrls instance's attributes
    firstOptions,  \* per instance: what get_options first returned since the
                   \* last add_option
    \* ---- Clean ----
    fsFiles,       \* paths of the regular files under the working directory
    fsDirs,        \* paths of the directories under the working directory
    fsFiles0,      \* the files present when Clean.run started
    walkQueue,     \* directories os.walk has still to yield
    printed,       \* lines printed by Clean.run (their order aside)
    removed,       \* paths os.remove has deleted
    clpc,          \* start / walking / done / raised
    \* ---- ShowUrls.run ----
    urlMap,        \* current_app.url_map.iter_rules(): the route table
    suOrder,       \* the order argument of the last run
    suOut,         \* lines printed by ShowUrls.run
    supc           \* idle / done / raised

appVars == <<ctxDepth, appRunCalls>>
hVars   == <<hpc, hCmd, hBehaviour, hEvents, hPending, hResult, hResults>>
srvVars == <<srv, appConfig, srvOptions, srvArgv, srvNs, srvpc>>
shVars  == <<sh, installed, shOptions, shArgv, shNs, shArgs, launched, shOutcome, shpc>>
optVars == <<option_list, addedBy, lastCall, firstOptions, suSelf>>
clVars  == <<fsFiles, fsDirs, fsFiles0, walkQueue, printed, removed, clpc>>
suVars  == <<urlMap, suOrder, suOut, supc>>
vars    == <<appVars, hVars, srvVars, shVars, optVars, clVars, suVars>>

notHandle == <<srvVars, shVars, optVars, clVars, suVars>>
notServer == <<hVars, shVars, optVars, clVars, suVars>>
notShell  == <<appVars, hVars, srvVars, optVars, clVars, suVars>>
notOpts   == <<appVars, hVars, srvVars, shVars, clVars, suVars>>
notClean  == <<appVars, hVars, srvVars, shVars, optVars, suVars>>
notUrls   == <<appVars, hVars, srvVars, shVars, optVars, clVars>>

None == "none"

(***************************************************************************)
(* Option: a pure value holder (args, kwargs).                             *)
(***************************************************************************)
Option(flags, action, dest, type, default) ==
    [flags |-> flags, action |-> action, dest |-> dest, type |-> type,
     default |-> default]

(***************************************************************************)
(* The parts not exercised by a specification rest in these states.        *)
(***************************************************************************)
AppIdle == ctxDepth = 0 /\ appRunCalls = <<>>

HIdle ==
    /\ hpc = "idle" /\ hCmd = None /\ hBehaviour = None /\ hEvents = <<>>
    /\ hPending = None /\ hResult = None /\ hResults = <<>>

SrvIdle ==
    /\ srv = None /\ appConfig = None /\ srvOptions = <<>>
    /\ srvArgv = {} /\ srvNs = None /\ srvpc = "new"

ShIdle ==
    /\ sh = None /\ installed = None /\ shOptions = <<>> /\ shArgv = {}
    /\ shNs = None /\ shArgs = None /\ launched = <<>> /\ shOutcome = None
    /\ shpc = "new"

OptIdle ==
    /\ option_list = <<>> /\ addedBy = None /\ lastCall = None
    /\ firstOptions = None /\ suSelf = None

ClIdle ==
    /\ fsFiles = {} /\ fsDirs = {} /\ fsFiles0 = {} /\ walkQueue = {}
    /\ printed = {} /\ removed = {} /\ clpc = "start"

SuIdle == urlMap = <<>> /\ suOrder = None /\ suOut = <<>> /\ supc = "idle"

(***************************************************************************)
(* Command.handle and Command.run                                          *)
(***************************************************************************)
MaxCalls == 3

\* What a command's run does: the base class raises NotImplementedError; a
\* subclass returns a value or raises an error of its own.
RunBehaviours ==
    { [cls |-> "Command",  does |-> "raise",  val |-> "NotImplementedError"],
      [cls |-> "Subclass", does |-> "return", val |-> "r1"],
      [cls |-> "Subclass", does |-> "return", val |-> "r2"],
      [cls |-> "Subclass", does |-> "raise",  val |-> "RuntimeError"] }

\* with app.test_request_context(): the context is pushed on entry.
HandleEnter(b) ==
    /\ hpc = "idle"
    /\ Len(hResults) < MaxCalls
    /\ hCmd' = b.cls
    /\ hBehaviour' = b
    /\ ctxDepth' = ctxDepth + 1
    /\ hEvents' = <<[ev |-> "enter", depth |-> ctxDepth + 1]>>
    /\ hpc' = "in_with"
    /\ hPending' = None
    /\ hResult' = None
    /\ UNCHANGED <<hResults, appRunCalls, notHandle>>

\* return self.run(*args, **kwargs): run executes inside the with block; its
\* outcome (a value or an exception) leaves the block.
HandleRun ==
    /\ hpc = "in_with"
    /\ hEvents' = Append(hEvents, [ev |-> "run", depth |-> ctxDepth])
    /\ hPending' = [does |-> hBehaviour.does, val |-> hBehaviour.val]
    /\ hpc' = "unwinding"
    /\ UNCHANGED <<hCmd, hBehaviour, hResult, hResults, ctxDepth, appRunCalls,
                   notHandle>>

\* Leaving the with block pops the context on a return and on an exception
\* alike; the outcome of run becomes the outcome of handle.
HandleExitSkipsOnRaise ==
    /\ hpc = "unwinding"
    /\ IF hPending.does = "raise"
         THEN UNCHANGED <<ctxDepth, hEvents>>
         ELSE /\ ctxDepth' = ctxDepth - 1
              /\ hEvents' = Append(hEvents, [ev |-> "exit", depth |-> ctxDepth - 1])
    /\ hResult' = hPending
    /\ hResults' = Append(hResults, hPending)
    /\ hpc' = "done"
    /\ UNCHANGED <<hCmd, hBehaviour, hPending, appRunCalls, notHandle>>

HandleExit ==
    /\ hpc = "unwinding"
    /\ ctxDepth' = ctxDepth - 1
    /\ hEvents' = Append(hEvents, [ev |-> "exit", depth |-> ctxDepth - 1])
    /\ hResult' = hPending
    /\ hResults' = Append(hResults, hPending)
    /\ hpc' = "done"
    /\ UNCHANGED <<hCmd, hBehaviour, hPending, appRunCalls, notHandle>>

\* The caller of handle goes on to the next invocation of the entry point.
HandleNext ==
    /\ hpc = "done"
    /\ hpc' = "idle"
    /\ UNCHANGED <<hCmd, hBehaviour, hEvents, hPending, hResult, hResults,
                   ctxDepth, appRunCalls, notHandle>>

InitHandle == AppIdle /\ HIdle /\ SrvIdle /\ ShIdle /\ OptIdle /\ ClIdle /\ SuIdle

NextHandle ==
    \/ \E b \in RunBehaviours : HandleEnter(b)
    \/ HandleRun
    \/ HandleExit
    \/ HandleNext

SpecHandle == InitHandle /\ [][NextHandle]_vars

EventNames(evs) == [i \in 1..Len(evs) |-> evs[i].ev]

\* C1: every invocation of the default handle enters the request context
\* exactly once before run and exits it exactly once after run, whether run
\* returns (handle returns its result) or raises (the exception, the base
\* class's NotImplementedError included, propagates after the exit); run
\* executes only inside the entered context.
C1_HandleScopesContext ==
    /\ \A i \in 1..Len(hEvents) : hEvents[i].ev = "run" => hEvents[i].depth = 1
    /\ hpc = "in_with" => EventNames(hEvents) = <<"enter">> /\ ctxDepth = 1
    /\ hpc = "unwinding" => EventNames(hEvents) = <<"enter", "run">> /\ ctxDepth = 1
    /\ hpc = "done" =>
         /\ EventNames(hEvents) = <<"enter", "run", "exit">>
         /\ ctxDepth = 0
         /\ hResult = [does |-> hBehaviour.does, val |-> hBehaviour.val]
         /\ hCmd = "Command" => hResult = [does |-> "raise", val |-> "NotImplementedError"]
    /\ hpc = "idle" => ctxDepth = 0

C1_Witness ==
    /\ hpc = "done"
    /\ Len(hResults) = 3
    /\ hResults[1].does = "return"
    /\ hResults[2] = [does |-> "raise", val |-> "RuntimeError"]
    /\ hResults[3] = [does |-> "raise", val |-> "NotImplementedError"]

(***************************************************************************)
(* argparse, as create_parser configures it: one add_argument per Option,  *)
(* then parse_args over the command line.  A command line is a set of      *)
(* tokens, a flag with the value that follows it (if any).                 *)
(***************************************************************************)
Token(flag, value) == [flag |-> flag, value |-> value]

RECURSIVE IntOf(_)
\* type=int: the decimal digits of the argument, converted.
IntOf(digits) ==
    IF digits = <<>> THEN 0
    ELSE 10 * IntOf(SubSeq(digits, 1, Len(digits) - 1)) + digits[Len(digits)]

Convert(opt, value) == IF opt.type = "int" THEN IntOf(value) ELSE value

\* The tokens of argv that name option opt.
Hits(opt, argv) == {t \in argv : t.flag \in opt.flags}

\* The value parse_args stores under opt.dest.
ParsedValue(opt, argv) ==
    IF Hits(opt, argv) = {} THEN opt.default
    ELSE CASE opt.action = "store_true"  -> TRUE
           [] opt.action = "store_false" -> FALSE
           [] OTHER -> Convert(opt, (CHOOSE t \in Hits(opt, argv) : TRUE).value)

AllFlags(options) == UNION {options[i].flags : i \in 1..Len(options)}

\* parse_args rejects a flag no option declares, a flag given more than once
\* with different values being outside the command lines drawn here.
Recognised(options, argv) ==
    /\ \A t \in argv : t.flag \in AllFlags(options)
    /\ \A i \in 1..Len(options) : Cardinality(Hits(options[i], argv)) <= 1

Dests(options) == {options[i].dest : i \in 1..Len(options)}

ParseArgs(options, argv) ==
    [d \in Dests(options) |->
        ParsedValue(options[CHOOSE i \in 1..Len(options) : options[i].dest = d], argv)]

(***************************************************************************)
(* Server                                                                  *)
(***************************************************************************)
MaxArgs == 2

Hosts == {"127.0.0.1", "0.0.0.0"}
DefaultPort == 5000
DefaultProcesses == 1
ExtraOptions == {{}, {<<"ssl_context", "adhoc">>}}

\* Server.__init__: every attribute is taken from the arguments.
ServerInstances ==
    [host : Hosts, port : {DefaultPort}, use_debugger : BOOLEAN,
     use_reloader : BOOLEAN, threaded : BOOLEAN, processes : {DefaultProcesses},
     passthrough_errors : BOOLEAN, server_options : ExtraOptions]

AppConfigs == [present : BOOLEAN, DEBUG : BOOLEAN]

DebugOptionAlwaysNoDebug(self) ==
    Option({"-d", "--no-debug"}, "store_false", "use_debugger", "bool", self.use_debugger)

\* if self.use_debugger: ... else: ...
DebugOption(self) ==
    IF self.use_debugger
      THEN Option({"-d", "--no-debug"}, "store_false", "use_debugger", "bool", self.use_debugger)
      ELSE Option({"-d", "--debug"}, "store_true", "use_debugger", "bool", self.use_debugger)

\* if self.use_reloader: ... else: ...
ReloadOption(self) ==
    IF self.use_reloader
      THEN Option({"-r", "--no-reload"}, "store_false", "use_reloader", "bool", self.use_reloader)
      ELSE Option({"-r", "--reload"}, "store_true", "use_reloader", "bool", self.use_reloader)

ServerOptions(self) ==
    << Option({"-t", "--host"}, "store", "host", "str", self.host),
       Option({"-p", "--port"}, "store", "port", "int", self.port),
       Option({"--threaded"}, "store_true", "threaded", "bool", self.threaded),
       Option({"--processes"}, "store", "processes", "int", self.processes),
       Option({"--passthrough-errors"}, "store_true", "passthrough_errors", "bool",
                  self.passthrough_errors) >>
    \o << DebugOption(self) >>
    \o << ReloadOption(self) >>

\* The command lines tried against the Server's parser.
ServerTokens ==
    { Token("--host", "0.0.0.0"), Token("-p", <<8, 0, 8, 0>>),
      Token("--threaded", None), Token("--passthrough-errors", None),
      Token("--processes", <<2>>),
      Token("-d", None), Token("--debug", None), Token("--no-debug", None),
      Token("-r", None), Token("--reload", None), Token("--no-reload", None) }

ServerArgvs == {a \in SUBSET ServerTokens : Cardinality(a) <= MaxArgs}

ServerGetOptions ==
    /\ srvpc = "new"
    /\ srvOptions' = ServerOptions(srv)
    /\ srvpc' = "options"
    /\ UNCHANGED <<srv, appConfig, srvArgv, srvNs, appVars, notServer>>

\* create_parser(prog).parse_args(argv) over the options just returned.
ServerParse(argv) ==
    /\ srvpc = "options"
    /\ srvArgv' = argv
    /\ IF Recognised(srvOptions, argv)
         THEN srvNs' = ParseArgs(srvOptions, argv) /\ srvpc' = "parsed"
         ELSE srvNs' = None /\ srvpc' = "usage_error"
    /\ UNCHANGED <<srv, appConfig, srvOptions, appVars, notServer>>

\* app.config.get('DEBUG', use_debugger)
ConfigGetDebug(config, default) == IF config.present THEN config.DEBUG ELSE default

AppRunKwargs(self, config, ns, debug) ==
    [host |-> ns.host, port |-> ns.port, debug |-> debug,
     use_debugger |-> ns.use_debugger, use_reloader |-> ns.use_reloader,
     threaded |-> ns.threaded, processes |-> ns.processes,
     passthrough_errors |-> ns.passthrough_errors, extra |-> self.server_options]

ServerHandleIgnoresConfig ==
    /\ srvpc = "parsed"
    /\ appRunCalls' = Append(appRunCalls,
                             AppRunKwargs(srv, appConfig, srvNs, srvNs.use_debugger))
    /\ srvpc' = "handled"
    /\ UNCHANGED <<srv, appConfig, srvOptions, srvArgv, srvNs, ctxDepth, notServer>>

\* Server.handle(app, **namespace): app.run is called directly.
ServerHandle ==
    /\ srvpc = "parsed"
    /\ appRunCalls' = Append(appRunCalls,
                             AppRunKwargs(srv, appConfig, srvNs,
                                          ConfigGetDebug(appConfig, srvNs.use_debugger)))
    /\ srvpc' = "handled"
    /\ UNCHANGED <<srv, appConfig, srvOptions, srvArgv, srvNs, ctxDepth, notServer>>

InitServer ==
    /\ srv \in ServerInstances
    /\ appConfig \in AppConfigs
    /\ srvOptions = <<>> /\ srvArgv = {} /\ srvNs = None /\ srvpc = "new"
    /\ AppIdle /\ HIdle /\ ShIdle /\ OptIdle /\ ClIdle /\ SuIdle

NextServer ==
    \/ ServerGetOptions
    \/ \E argv \in ServerArgvs : ServerParse(argv)
    \/ ServerHandle

SpecServer == InitServer /\ [][NextServer]_vars

BoundTo(options, dest) == {i \in 1..Len(options) : options[i].dest = dest}

HasFlag(options, flag) == \E i \in 1..Len(options) : flag \in options[i].flags

\* The toggle exposed for attribute dest of a Server configured with value d:
\* one option, named `off` and store-false when d is on, named `on` and
\* store-true when d is off, the other name absent.
ToggleShape(options, dest, d, on, off) ==
    /\ Cardinality(BoundTo(options, dest)) = 1
    /\ LET o == options[CHOOSE i \in BoundTo(options, dest) : TRUE] IN
         IF d THEN /\ o.action = "store_false" /\ off \in o.flags
                   /\ ~HasFlag(options, on)
              ELSE /\ o.action = "store_true" /\ on \in o.flags
                   /\ ~HasFlag(options, off)

Passed(options, dest, argv) ==
    \E i \in BoundTo(options, dest) : Hits(options[i], argv) # {}

\* C2: Server.get_options() holds exactly one option bound to use_debugger,
\* '--no-debug' (store-false) when the configured default is on and '--debug'
\* (store-true) when it is off, never both; likewise '--no-reload' / '--reload'
\* for use_reloader; so the parsed value is the configured default when the
\* flag is absent and its negation when the flag is passed.
C2_ServerToggleFlags ==
    /\ srvpc # "new" =>
         /\ ToggleShape(srvOptions, "use_debugger", srv.use_debugger,
                        "--debug", "--no-debug")
         /\ ToggleShape(srvOptions, "use_reloader", srv.use_reloader,
                        "--reload", "--no-reload")
    /\ srvpc \in {"parsed", "handled"} =>
         /\ srvNs.use_debugger =
              (IF Passed(srvOptions, "use_debugger", srvArgv)
                 THEN ~srv.use_debugger ELSE srv.use_debugger)
         /\ srvNs.use_reloader =
              (IF Passed(srvOptions, "use_reloader", srvArgv)
                 THEN ~srv.use_reloader ELSE srv.use_reloader)

C2_Witness ==
    /\ srvpc = "parsed"
    /\ ~srv.use_debugger /\ srv.use_reloader
    /\ srvArgv = {Token("--debug", None), Token("--no-reload", None)}
    /\ srvNs.use_debugger /\ ~srvNs.use_reloader

\* C8: Server.handle never enters the request context; it calls app.run exactly
\* once, with the host, port, use_debugger, use_reloader, threaded, processes
\* and passthrough_errors it was given, the instance's extra server options
\* unchanged, and debug equal to the application's DEBUG setting when that key
\* is present and to use_debugger otherwise.
C8_ServerHandleRunsApp ==
    /\ ctxDepth = 0
    /\ srvpc # "handled" => appRunCalls = <<>>
    /\ srvpc = "handled" =>
         /\ Len(appRunCalls) = 1
         /\ LET k == appRunCalls[1] IN
              /\ k.host = srvNs.host /\ k.port = srvNs.port
              /\ k.use_debugger = srvNs.use_debugger
              /\ k.use_reloader = srvNs.use_reloader
              /\ k.threaded = srvNs.threaded
              /\ k.processes = srvNs.processes
              /\ k.passthrough_errors = srvNs.passthrough_errors
              /\ k.extra = srv.server_options
              /\ k.debug = (IF appConfig.present THEN appConfig.DEBUG
                                                 ELSE srvNs.use_debugger)

C8_Witness ==
    /\ srvpc = "handled"
    /\ appConfig = [present |-> TRUE, DEBUG |-> FALSE]
    /\ srvNs.use_debugger
    /\ srvNs.port = 8080
    /\ srv.server_options # {}
    /\ appRunCalls[1].debug = FALSE

(***************************************************************************)
(* Shell                                                                   *)
(***************************************************************************)
Banners == {"", "welcome"}

\* Shell.__init__: banner or the class's empty banner, and the two
\* preferences; make_context is left at its default.
ShellInstances == [banner : Banners, use_ipython : BOOLEAN, use_bpython : BOOLEAN]

\* What the interpreter can import.  IPython is either absent, or exposes
\* IPython.Shell.IPShellEmbed ("shell"), or only
\* IPython.frontend.terminal.embed.InteractiveShellEmbed ("frontend"), or
\* neither of the two ("neither").
Interpreters == [bpython : BOOLEAN, IPython : {"absent", "shell", "frontend", "neither"}]

ShellOptions(self) ==
    << Option({"--no-ipython"}, "store_true", "no_ipython", "bool", ~self.use_ipython),
       Option({"--bpython"}, "store_true", "bpython", "bool", ~self.use_bpython) >>

ShellTokens == {Token("--no-ipython", None), Token("--bpython", None),
                Token("--ipython", None)}

\* self.get_context(): the mapping the default make_context returns.
GetContext(self) == "app"

Launch(shell, self) == [shell |-> shell, banner |-> self.banner, locals |-> GetContext(self)]

Ran(shells, outcome) == [launched |-> shells, outcome |-> outcome]

BaselineOnly(self) == Ran(<<Launch("code", self)>>, "returned")

RunShellBpythonImportEscapes(self, env, no_ipython, bpython) ==
    IF bpython
      THEN IF env.bpython
             THEN Ran(<<Launch("bpython", self), Launch("code", self)>>, "returned")
             ELSE Ran(<<>>, "ImportError")
      ELSE BaselineOnly(self)

\* Shell.run(no_ipython, bpython): the shells it launches, in order, and how it
\* ends.
RunShell(self, env, no_ipython, bpython) ==
    IF bpython
      THEN \* try: from bpython import embed; embed(...)  except ImportError: pass
           \* and then, in both cases, code.interact
           IF env.bpython
             THEN Ran(<<Launch("bpython", self), Launch("code", self)>>, "returned")
             ELSE BaselineOnly(self)
    ELSE IF ~no_ipython
      THEN CASE env.IPython = "absent"   -> BaselineOnly(self)
             [] env.IPython = "shell"    -> Ran(<<Launch("IPython", self)>>, "returned")
             [] env.IPython = "frontend" -> Ran(<<Launch("IPython", self)>>, "returned")
             [] OTHER                    -> Ran(<<>>, "AttributeError")
    ELSE BaselineOnly(self)

ShellGetOptions ==
    /\ shpc = "new"
    /\ shOptions' = ShellOptions(sh)
    /\ shpc' = "options"
    /\ UNCHANGED <<sh, installed, shArgv, shNs, shArgs, launched, shOutcome, notShell>>

ShellParse(argv) ==
    /\ shpc = "options"
    /\ shArgv' = argv
    /\ IF Recognised(shOptions, argv)
         THEN shNs' = ParseArgs(shOptions, argv) /\ shpc' = "parsed"
         ELSE shNs' = None /\ shpc' = "usage_error"
    /\ UNCHANGED <<sh, installed, shOptions, shArgs, launched, shOutcome, notShell>>

\* handle(app, **namespace) reaches run(no_ipython, bpython).
ShellRun ==
    /\ shpc = "parsed"
    /\ shArgs' = [no_ipython |-> shNs.no_ipython, bpython |-> shNs.bpython]
    /\ LET r == RunShell(sh, installed, shNs.no_ipython, shNs.bpython) IN
         /\ launched' = r.launched
         /\ shOutcome' = r.outcome
    /\ shpc' = "ran"
    /\ UNCHANGED <<sh, installed, shOptions, shArgv, shNs, notShell>>

InitShell ==
    /\ sh \in ShellInstances
    /\ installed \in Interpreters
    /\ shOptions = <<>> /\ shArgv = {} /\ shNs = None /\ shArgs = None
    /\ launched = <<>> /\ shOutcome = None /\ shpc = "new"
    /\ AppIdle /\ HIdle /\ SrvIdle /\ OptIdle /\ ClIdle /\ SuIdle

NextShell ==
    \/ ShellGetOptions
    \/ \E argv \in SUBSET ShellTokens : ShellParse(argv)
    \/ ShellRun

SpecShell == InitShell /\ [][NextShell]_vars

\* C3: each of the Shell's two flags ('--no-ipython', '--bpython') defaults to
\* the negation of the configured preference, so that passing the flag flips
\* the value run receives: passed and absent give different values, whatever
\* use_ipython and use_bpython are.
C3_ShellFlagFlips ==
    shpc # "new" =>
        /\ shOptions[1].default = ~sh.use_ipython
        /\ shOptions[2].default = ~sh.use_bpython
        /\ \A i \in 1..Len(shOptions) :
             \A f \in shOptions[i].flags :
                ParsedValue(shOptions[i], {Token(f, None)})
                    # ParsedValue(shOptions[i], {})

\* C7: run called with the bpython flag set while bpython cannot be imported
\* does not raise: the baseline interpreter is launched with the context and
\* the banner.
C7_BpythonMissingFallsBack ==
    (shpc = "ran" /\ shArgs.bpython /\ ~installed.bpython) =>
        /\ shOutcome = "returned"
        /\ launched = <<[shell |-> "code", banner |-> sh.banner,
                         locals |-> GetContext(sh)]>>

C7_Witness ==
    /\ shpc = "ran" /\ shArgs.bpython /\ ~installed.bpython
    /\ sh.use_bpython /\ shArgv = {Token("--bpython", None)}
    /\ sh.banner = "welcome"
    /\ Len(launched) = 1

\* C10: a run that does not raise launches exactly one interactive shell: the
\* baseline interpreter is not launched after an alternate shell was, and is
\* launched when none was.
C10_ExactlyOneShell ==
    (shpc = "ran" /\ shOutcome = "returned") => Len(launched) = 1

(***************************************************************************)
(* Command.option_list, add_option, get_options, create_parser and         *)
(* ShowUrls.get_options.  Clean and ShowUrls declare no option_list of     *)
(* their own: self.option_list is the list object of the class Command.    *)
(***************************************************************************)
MaxOptions == 3

Instances == {"clean1", "clean2", "showurls"}
ClassOf(inst) == IF inst = "showurls" THEN "ShowUrls" ELSE "Clean"

OrderKeys == {"rule", "endpoint"}

\* Options a caller adds with add_option.
UserOptions ==
    { Option({"-n", "--name"}, "store", "name", "str", "x"),
      Option({"--verbose"}, "store_true", "verbose", "bool", FALSE) }

\* Option('--order', dest='order', default=self.order, help=...)
OrderOption(self) == Option({"--order"}, "store", "order", "str", self.order)

\* Options a class declares for its instances, apart from those added.
Declared(inst) == IF ClassOf(inst) = "ShowUrls" THEN {OrderOption(suSelf)} ELSE {}

\* self.option_list.append(option)
AddOption(inst, option) ==
    /\ Len(option_list) < MaxOptions
    /\ option_list' = Append(option_list, option)
    /\ addedBy' = [addedBy EXCEPT ![inst] = @ \cup {option}]
    /\ firstOptions' = [i \in Instances |-> [called |-> FALSE, value |-> <<>>]]
    /\ UNCHANGED <<lastCall, suSelf, notOpts>>

\* The list object get_options leaves in Command.option_list when called on
\* inst: ShowUrls does options = super().get_options(); options += (Option,)
\* on that very list, Command.get_options only returns it.
OptionListAfterGet(inst) ==
    IF ClassOf(inst) = "ShowUrls"
      THEN option_list \o <<OrderOption(suSelf)>>
      ELSE option_list

Remember(inst, value) ==
    IF firstOptions[inst].called THEN firstOptions
    ELSE [firstOptions EXCEPT ![inst] = [called |-> TRUE, value |-> value]]

\* parser.add_argument refuses an option string an earlier option declared.
Conflict(options) ==
    \E i, j \in 1..Len(options) :
        i < j /\ options[i].flags \cap options[j].flags # {}

GetOptions(inst) ==
    /\ Len(OptionListAfterGet(inst)) <= MaxOptions
    /\ option_list' = OptionListAfterGet(inst)
    /\ lastCall' = [inst |-> inst, op |-> "get_options",
                    value |-> OptionListAfterGet(inst), error |-> FALSE]
    /\ firstOptions' = Remember(inst, OptionListAfterGet(inst))
    /\ UNCHANGED <<addedBy, suSelf, notOpts>>

\* create_parser(prog): one add_argument per option of self.get_options().
CreateParser(inst) ==
    /\ Len(OptionListAfterGet(inst)) <= MaxOptions
    /\ option_list' = OptionListAfterGet(inst)
    /\ lastCall' = [inst |-> inst, op |-> "create_parser",
                    value |-> OptionListAfterGet(inst),
                    error |-> Conflict(OptionListAfterGet(inst))]
    /\ firstOptions' = Remember(inst, OptionListAfterGet(inst))
    /\ UNCHANGED <<addedBy, suSelf, notOpts>>

InitOptions ==
    /\ option_list = <<>>
    /\ addedBy = [i \in Instances |-> {}]
    /\ lastCall = [inst |-> None, op |-> None, value |-> <<>>, error |-> FALSE]
    /\ firstOptions = [i \in Instances |-> [called |-> FALSE, value |-> <<>>]]
    /\ suSelf \in [order : OrderKeys]
    /\ AppIdle /\ HIdle /\ SrvIdle /\ ShIdle /\ ClIdle /\ SuIdle

NextOptions ==
    \/ \E inst \in Instances, o \in UserOptions : AddOption(inst, o)
    \/ \E inst \in Instances : GetOptions(inst)
    \/ \E inst \in Instances : CreateParser(inst)

SpecOptions == InitOptions /\ [][NextOptions]_vars

Elements(seq) == {seq[i] : i \in 1..Len(seq)}

\* C4: a Command is the sole owner of its options: whatever add_option,
\* get_options and create_parser calls were made on whatever instances, what
\* get_options() of an instance returns holds only options declared for or
\* added to that instance, never one added through another instance.
C4_SoleOwner ==
    lastCall.op = "get_options" =>
        Elements(lastCall.value) \subseteq
            (addedBy[lastCall.inst] \cup Declared(lastCall.inst))

\* C9: get_options is idempotent on a reused instance: every get_options() or
\* create_parser(prog) call yields the option sequence the first call yielded;
\* a ShowUrls instance always exposes exactly one '--order' option, so that
\* create_parser succeeds on every invocation as on the first.
C9_GetOptionsIdempotent ==
    lastCall.op # None =>
        /\ firstOptions[lastCall.inst].called =>
             lastCall.value = firstOptions[lastCall.inst].value
        /\ ClassOf(lastCall.inst) = "ShowUrls" =>
             /\ Cardinality({i \in 1..Len(lastCall.value) :
                               "--order" \in lastCall.value[i].flags}) = 1
             /\ ~lastCall.error

(***************************************************************************)
(* Clean.  A file or directory name is the sequence of its characters, a   *)
(* path the sequence of its components, starting with ".".                 *)
(***************************************************************************)
MaxDepth == 2
MaxFiles == 3

Cwd == << <<".">> >>

PycMarker == <<".", "p", "y", "c">>

FileNames ==
    { <<"a", ".", "p", "y", "c">>,
      <<"b", ".", "t", "x", "t">>,
      <<"c", ".", "p", "y", "c", "o">>,
      <<"a", "p", "y", "c">> }

SubName  == <<"s", "u", "b">>
DPycName == <<"d", ".", "p", "y", "c">>

RECURSIVE Chain(_)
\* ./sub/sub/... with n nested directories, as the set of their paths.
Chain(n) ==
    IF n = 0 THEN {}
    ELSE Chain(n - 1) \cup { Cwd \o [i \in 1..n |-> SubName] }

\* The directory trees drawn: nested directories ./sub/sub/... up to MaxDepth
\* deep, with or without a directory ./d.pyc beside them.
DirTrees ==
    { Chain(n) \cup extra : n \in 0..MaxDepth, extra \in {{}, {Cwd \o <<DPycName>>}} }

AtMost(S, n) == {T \in SUBSET S : Cardinality(T) <= n}

\* '.pyc' in filename
EndsWith(sub, str) ==
    Len(str) >= Len(sub)
      /\ SubSeq(str, Len(str) - Len(sub) + 1, Len(str)) = sub

Contains(sub, str) ==
    \E i \in 0..(Len(str) - Len(sub)) : SubSeq(str, i + 1, i + Len(sub)) = sub

\* os.path.join(dirpath, filename)
Join(dirpath, name) == Append(dirpath, name)

Basename(path) == path[Len(path)]
Dirname(path) == SubSeq(path, 1, Len(path) - 1)

\* One triple os.walk yields for dirpath: its subdirectories and its files.
WalkDirnames(dirpath) == {d \in fsDirs : Dirname(d) = dirpath}
WalkFilenames(dirpath) == {Basename(f) : f \in {g \in fsFiles : Dirname(g) = dirpath}}

Matching(dirpath) == {n \in WalkFilenames(dirpath) : Contains(PycMarker, n)}

RemovingLine(path) == [text |-> "Removing", path |-> path]

\* for dirpath, dirnames, filenames in os.walk('.'):  the walk starts at '.'.
CleanStart ==
    /\ clpc = "start"
    /\ fsFiles0' = fsFiles
    /\ walkQueue' = {Cwd}
    /\ clpc' = "walking"
    /\ UNCHANGED <<fsFiles, fsDirs, printed, removed, notClean>>

\* One iteration of the outer loop: the inner loop prints and removes every
\* matching file of dirpath; the walk then goes on into its subdirectories.
CleanVisit(dirpath) ==
    /\ clpc = "walking"
    /\ dirpath \in walkQueue
    /\ LET paths == {Join(dirpath, n) : n \in Matching(dirpath)} IN
         /\ printed' = printed \cup {RemovingLine(p) : p \in paths}
         /\ removed' = removed \cup paths
         /\ fsFiles' = fsFiles \ paths
    /\ walkQueue' = (walkQueue \ {dirpath}) \cup WalkDirnames(dirpath)
    /\ UNCHANGED <<fsDirs, fsFiles0, clpc, notClean>>

\* os.remove fails on a matching file of dirpath: the files before it are
\* gone, its line is printed, and the error leaves run.
CleanVisitFails(dirpath, failing, before) ==
    /\ clpc = "walking"
    /\ dirpath \in walkQueue
    /\ failing \in Matching(dirpath)
    /\ before \subseteq Matching(dirpath) \ {failing}
    /\ LET paths == {Join(dirpath, n) : n \in before} IN
         /\ printed' = printed \cup {RemovingLine(p) : p \in paths}
                               \cup {RemovingLine(Join(dirpath, failing))}
         /\ removed' = removed \cup paths
         /\ fsFiles' = fsFiles \ paths
    /\ walkQueue' = {}
    /\ clpc' = "raised"
    /\ UNCHANGED <<fsDirs, fsFiles0, notClean>>

\* os.walk is exhausted: run returns.
CleanDone ==
    /\ clpc = "walking"
    /\ walkQueue = {}
    /\ clpc' = "done"
    /\ UNCHANGED <<fsFiles, fsDirs, fsFiles0, walkQueue, printed, removed, notClean>>

InitClean ==
    /\ fsDirs \in DirTrees
    /\ fsFiles \in AtMost({Join(d, n) : d \in fsDirs \cup {Cwd}, n \in FileNames},
                          MaxFiles)
    /\ fsFiles0 = {} /\ walkQueue = {} /\ printed = {} /\ removed = {}
    /\ clpc = "start"
    /\ AppIdle /\ HIdle /\ SrvIdle /\ ShIdle /\ OptIdle /\ SuIdle

NextClean ==
    \/ CleanStart
    \/ \E d \in walkQueue : CleanVisit(d)
    \/ \E d \in walkQueue : \E n \in FileNames : \E b \in SUBSET FileNames :
          CleanVisitFails(d, n, b)
    \/ CleanDone

SpecClean == InitClean /\ [][NextClean]_vars

\* The name reads: some characters, then '.', 'p', 'y', 'c', then the rest.
NameHoldsPyc(name) ==
    \E k \in 1..Len(name) :
        /\ k + 3 <= Len(name)
        /\ name[k] = "." /\ name[k + 1] = "p" /\ name[k + 2] = "y" /\ name[k + 3] = "c"

MaxRules == 3

ColumnWidth == 30
SeparatorWidth == 80

\* The characters that occur, in the order of their codes.
Alphabet == <<" ", "-", "/", "E", "R", "a", "b", "c", "d", "e", "i", "l",
              "n", "o", "p", "t", "u", "x", "y", "z">>

Code(ch) == CHOOSE i \in 1..Len(Alphabet) : Alphabet[i] = ch

RECURSIVE StrLess(_, _)
\* s < t on strings: the first differing character decides, a proper prefix
\* is smaller.
StrLess(s, t) ==
    IF t = <<>> THEN FALSE
    ELSE IF s = <<>> THEN TRUE
    ELSE IF s[1] # t[1] THEN Code(s[1]) < Code(t[1])
    ELSE StrLess(Tail(s), Tail(t))

Rule(pattern, endpoint) == [rule |-> pattern, endpoint |-> endpoint]

\* The entries a route table is drawn from.
RulePool ==
    { Rule(<<"/", "a">>, <<"y">>),
      Rule(<<"/", "c">>, <<"x">>),
      Rule(<<"/", "b">>, <<"z">>),
      Rule(<<"/", "a", "b">>, <<"x">>),
      Rule(<<"/", "a">>, <<"x">>) }

RouteTables == UNION {[1..n -> RulePool] : n \in 0..MaxRules}

\* The order arguments tried: the two attributes of an entry and a name no
\* entry has.
DefaultOrder == "rule"
OrderArgs == {DefaultOrder, "endpoint", "no_such_attribute"}

HasAttr(r, name) == name \in DOMAIN r
\* getattr(rule, order)
GetAttr(r, name) == r[name]

RECURSIVE InsertByKey(_, _, _)
\* x placed behind every element whose key is not greater than its own.
InsertByKey(x, sorted, name) ==
    IF sorted = <<>> THEN <<x>>
    ELSE IF StrLess(GetAttr(x, name), GetAttr(sorted[1], name))
           THEN <<x>> \o sorted
           ELSE <<sorted[1]>> \o InsertByKey(x, Tail(sorted), name)

RECURSIVE SortedStable(_, _)
SortedStable(rules, name) ==
    IF rules = <<>> THEN <<>>
    ELSE InsertByKey(rules[Len(rules)],
                     SortedStable(SubSeq(rules, 1, Len(rules) - 1), name), name)

SortedRulesByPatternOnly(rules, order) == SortedStable(rules, "rule")

\* sorted(iter_rules(), key=lambda rule: getattr(rule, order))
SortedRules(rules, order) == SortedStable(rules, order)

\* "%-30s" % value: value, padded with spaces on the right up to the width.
PadRight(str, width) ==
    IF Len(str) >= width THEN str
    ELSE str \o [i \in 1..(width - Len(str)) |-> " "]

\* print a, b: the two values of one output line.
Line(a, b) == <<a, b>>

HeaderLine == Line(PadRight(<<"R", "u", "l", "e">>, ColumnWidth),
                   <<"E", "n", "d", "p", "o", "i", "n", "t">>)
SeparatorLine == Line([i \in 1..SeparatorWidth |-> "-"], <<>>)
RuleLine(r) == Line(PadRight(r.rule, ColumnWidth), r.endpoint)

\* ShowUrls.run(order) against the application's route table.
ShowUrlsRun(order) ==
    /\ supc = "idle"
    /\ suOrder' = order
    /\ IF \A i \in 1..Len(urlMap) : HasAttr(urlMap[i], order)
         THEN /\ suOut' = <<HeaderLine, SeparatorLine>>
                    \o [i \in 1..Len(urlMap) |-> RuleLine(SortedRules(urlMap, order)[i])]
              /\ supc' = "done"
         ELSE /\ suOut' = <<HeaderLine, SeparatorLine>>
              /\ supc' = "AttributeError"
    /\ UNCHANGED <<urlMap, notUrls>>

\* The next invocation of the command.
ShowUrlsAgain ==
    /\ supc # "idle"
    /\ supc' = "idle"
    /\ suOut' = <<>>
    /\ suOrder' = None
    /\ UNCHANGED <<urlMap, notUrls>>

InitShowUrls ==
    /\ urlMap \in RouteTables
    /\ suOrder = None /\ suOut = <<>> /\ supc = "idle"
    /\ AppIdle /\ HIdle /\ SrvIdle /\ ShIdle /\ OptIdle /\ ClIdle

NextShowUrls ==
    \/ \E order \in OrderArgs : ShowUrlsRun(order)
    \/ ShowUrlsAgain

SpecShowUrls == InitShowUrls /\ [][NextShowUrls]_vars

PermutationsOf(n) == {p \in [1..n -> 1..n] : \A i, j \in 1..n : i # j => p[i] # p[j]}

\* C6: ShowUrls.run(order) prints, after a header row and a separator line,
\* one row per entry of the route table, each entry exactly once, in
\* non-decreasing order of the attribute named by order; by the default key
\* the rows are in lexicographic order of the route pattern.
C6_RowsSortedByOrder ==
    supc = "done" =>
        LET n == Len(urlMap) IN
          /\ Len(suOut) = n + 2
          /\ suOut[1] = HeaderLine
          /\ suOut[2] = SeparatorLine
          /\ \E p \in PermutationsOf(n) :
                /\ \A i \in 1..n : suOut[i + 2] = RuleLine(urlMap[p[i]])
                /\ \A i \in 1..(n - 1) :
                      ~StrLess(urlMap[p[i + 1]][suOrder], urlMap[p[i]][suOrder])

C6_Witness ==
    /\ supc = "done"
    /\ suOrder = DefaultOrder
    /\ urlMap = << Rule(<<"/", "a">>, <<"y">>), Rule(<<"/", "c">>, <<"x">>),
                   Rule(<<"/", "b">>, <<"z">>) >>
    /\ suOut[3][1] = PadRight(<<"/", "a">>, ColumnWidth)
    /\ suOut[4][1] = PadRight(<<"/", "b">>, ColumnWidth)
    /\ suOut[5][1] = PadRight(<<"/", "c">>, ColumnWidth)

====
